---- MODULE Spec2Model ----
(***************************************************************************)
(* A model of handin240_utils: the Operation check pipeline of utils.py    *)
(* (existence -> interface -> compilation), its two drivers (doOpArray of   *)
(* utils.py and checkStudents/checkStudent of admin.py), and the part of   *)
(* the process environment they read and write: the current working        *)
(* directory, the directories' contents, the temporary build directories   *)
(* and the external tools (interface comparator, vlogan, vcs).             *)
(***************************************************************************)
EXTENDS Integers, Sequences, FiniteSets, TLC

(* ------------------------------ bounds -------------------------------- *)

\* Number of students on the roster of a batch run.
NumStudents == 3

\* Longest specificModules list of a problem record.
MaxModules == 2

\* Longest configuration (number of problem records) handed to doOpArray.
MaxProblems == 2

\* Longest header text handed to writeHeaderLine.
MaxHeaderLen == 80

\* Largest number of files in cfgDir.
MaxCfgFiles == 2

\* Longest "files" and "compileFiles" list of a record whose wildcards are
\* resolved on their own.
MaxListLen == 2

(* ---------------------- Python values and helpers ---------------------- *)

\* Python's None and a present value: an optional value is a sequence of
\* length 0 or 1.
None == <<>>

Some(x) == <<x>>

IsNone(o) == o = <<>>

Val(o) == o[1]

\* The file names that occur, in the order Python's sorted() gives strings.
NameOrder == <<"a.sv", "b.sv">>

FileNames == {NameOrder[i] : i \in 1..Len(NameOrder)}

\* The glob pattern that occurs in configurations.
Patterns == {"*.sv"}

\* "*" in f
HasWildcard(f) == f \in Patterns

\* glob.glob(pattern) in a directory holding the files `present`: "*.sv"
\* matches every name ending in .sv.
Glob(pattern, present) == IF pattern = "*.sv" THEN present ELSE {}

RECURSIVE SortedFrom(_, _)
SortedFrom(S, i) ==
    IF i > Len(NameOrder) THEN <<>>
    ELSE (IF NameOrder[i] \in S THEN <<NameOrder[i]>> ELSE <<>>)
         \o SortedFrom(S, i + 1)

\* sorted(list(S)) for a set of file names
Sorted(S) == SortedFrom(S, 1)

Range(s) == {s[i] : i \in 1..Len(s)}

(* ------------------------------ messages ------------------------------- *)

ERR_NOEXIST == 201

ERR_NOCOMPILE == 202

ERR_FAILTEST == 203

ERR_BADINTERF == 204

\* A line of diagnostic text: the file names it starts with and its text.
Line(names, text) == [names |-> names, text |-> text]

\* Operation.getOpError: "<mainFile>: <errMessage>"
getOpError(mainFile, errType) ==
    Line(mainFile,
         IF errType = ERR_NOEXIST THEN "file does not exist"
         ELSE IF errType = ERR_NOCOMPILE THEN "failed to compile"
         ELSE IF errType = ERR_FAILTEST THEN "failed TA testbench"
         ELSE IF errType = ERR_BADINTERF THEN "incorrect interface"
         ELSE "unspecified error")

\* The "\n" that do() appends to the diagnostic text it returns.
Newline == Line(<<>>, "")

\* writeHeaderLine("Problem {}".format(number), True)
ProblemHeader(number) == Line(<<>>, "Problem " \o ToString(number))

\* The same for self.number, which is None when the record gave null.
ProblemHeaderOf(number) ==
    IF IsNone(number) THEN Line(<<>>, "Problem None") ELSE ProblemHeader(Val(number))

\* getOutputHeader(studentID, hwNum): banner, two text lines, banner
getOutputHeader(studentID, hwNum) ==
    << Line(<<>>, "****"),
       Line(<<>>, "18240: " \o hwNum),
       Line(<<>>, "Error log for: " \o studentID),
       Line(<<>>, "****") >>

(* ----------------------------- descriptors ----------------------------- *)

\* Operation.__init__
NewOperation(refFilePath, skipCompile, silent) ==
    [ number          |-> None,
      existFiles      |-> None,
      compileFiles    |-> None,
      testFiles       |-> None,
      specificModules |-> None,
      refFilePath     |-> refFilePath,
      hasErrors       |-> FALSE,
      err             |-> <<>>,
      useWildcard     |-> FALSE,
      skipCompile     |-> skipCompile,
      silent          |-> silent ]

\* A reset that also takes back what the wildcard resolution noted.
clearErrorsAndWildcard(op) ==
    [op EXCEPT !.hasErrors = FALSE, !.err = <<>>, !.useWildcard = FALSE]

\* A reset of the flag that leaves the text.
clearErrorsFlagOnly(op) == [op EXCEPT !.hasErrors = FALSE]

\* Operation.clearErrors
clearErrors(op) == [op EXCEPT !.hasErrors = FALSE, !.err = <<>>]

\* The set a file list resolves to: each wildcard entry is replaced by the
\* files it matches, every other entry is kept.
Resolve(list, present) ==
    UNION { IF HasWildcard(list[i]) THEN Glob(list[i], present) ELSE {list[i]}
            : i \in 1..Len(list) }

\* A resolution that sets useWildcard anew on every run.
checkWildcardFlagRecomputed(op, present) ==
    LET e == op.existFiles
        c == op.compileFiles
    IN [op EXCEPT
          !.useWildcard  = ~IsNone(e) /\ \E i \in 1..Len(Val(e)) : Val(e)[i] \in Patterns,
          !.existFiles   = IF IsNone(e) THEN e ELSE Some(Sorted(Resolve(Val(e), present))),
          !.compileFiles = IF IsNone(c) THEN c ELSE Some(Sorted(Resolve(Val(c), present)))]

\* A resolution that leaves the lists as the record gave them.
checkWildcardUnresolved(op, present) ==
    [op EXCEPT !.useWildcard = ~IsNone(op.existFiles)]

\* Operation.checkWildcard, run in a directory holding the files `present`
checkWildcard(op, present) ==
    LET e == op.existFiles
        c == op.compileFiles
        wild == ~IsNone(e) /\ \E i \in 1..Len(Val(e)) : HasWildcard(Val(e)[i])
    IN [op EXCEPT
          !.useWildcard  = op.useWildcard \/ wild,
          !.existFiles   = IF IsNone(e) THEN e ELSE Some(Sorted(Resolve(Val(e), present))),
          !.compileFiles = IF IsNone(c) THEN c ELSE Some(Sorted(Resolve(Val(c), present)))]

\* Operation.parseProblem
parseProblem(op, p, present) ==
    checkWildcard(
      [op EXCEPT
         !.number          = IF IsNone(p.number) THEN @ ELSE p.number,
         !.existFiles      = IF IsNone(p.files) THEN @ ELSE p.files,
         !.compileFiles    = IF IsNone(p.compileFiles) THEN @ ELSE p.compileFiles,
         !.testFiles       = IF IsNone(p.testFiles) THEN @ ELSE p.testFiles,
         !.specificModules = IF IsNone(p.specificModules) THEN @ ELSE p.specificModules],
      present)

\* The records left in the order of the configuration file.
KeepOrder(config) == config

\* Insertion of p into a list sorted by "number", after the records with
\* the same number (sorted() is stable).
RECURSIVE InsertByNumber(_, _)
InsertByNumber(p, s) ==
    IF s = <<>> THEN <<p>>
    ELSE IF Val(p.number) < Val(Head(s).number) THEN <<p>> \o s
    ELSE <<Head(s)>> \o InsertByNumber(p, Tail(s))

RECURSIVE SortByNumber(_)
\* sorted(config, key=lambda p: p["number"])
SortByNumber(config) ==
    IF config = <<>> THEN <<>>
    ELSE InsertByNumber(config[Len(config)], SortByNumber(SubSeq(config, 1, Len(config) - 1)))

\* The keys parseProblem reads from a problem record.
ProblemKeys == {"number", "files", "compileFiles", "testFiles", "specificModules"}

\* The exception makeOpArray(config) ends with, or "none": p["number"] in
\* the sort key and p[k] in parseProblem raise KeyError on a record without
\* the key, and sorted() raises TypeError when it compares a number that
\* is None.
makeOpArrayRaises(config) ==
    IF \E i \in 1..Len(config) : "number" \notin DOMAIN config[i]
    THEN "KeyError"
    ELSE IF Len(config) >= 2 /\ \E i \in 1..Len(config) : IsNone(config[i].number)
    THEN "TypeError"
    ELSE IF \E i \in 1..Len(config) : \E k \in ProblemKeys : k \notin DOMAIN config[i]
    THEN "KeyError"
    ELSE "none"

\* makeOpArray, when it raises nothing
makeOpArray(config, refFilePath, skipCompile, silent, present) ==
    LET sorted == SortByNumber(config)
    IN [i \in 1..Len(sorted) |->
          parseProblem(NewOperation(refFilePath, skipCompile, silent), sorted[i], present)]

(* ------------------------------- state --------------------------------- *)

VARIABLES
    mode,            \* "batch": admin.checkStudents; "handin": utils.doOpArray
    cfgDir,          \* os.listdir(cfgDir): the names of the files, in its order
    cfgContent,      \* the content of the file parseConfig opens
    config,          \* the parsed configuration: a list of problem records
    hwNum,           \* checkStudents: hwNum
    fs,              \* directory -> [exists, files, log (errors.log, or None)]
    fs0,             \* fs when the program was started
    runs,            \* the do() calls made so far: directory and problem number
    refs,            \* the files f for which <refFilePath>/<f>_ref.sv exists
    cwd,             \* os.getcwd()
    tmpDirs,         \* the temporary directories that exist
    opArray,         \* the Operation objects
    pc,              \* the position of the (single) thread of control
    cur,             \* index in opArray of the op of the current loop round
    fIdx,            \* checkInterface: index of f in existFiles
    mIdx,            \* checkCompilation: index of module in specificModules
    calls,           \* the external tool invocations made so far, in order
    callBase,        \* the length of calls when the current do() was called
    ret,             \* the value the last do() returned
    raised,          \* the exception in flight, or "none"
    oldDir,          \* checkCompilation: oldDir
    tempDir,         \* checkCompilation: tempDir
    sIdx,            \* checkStudents: index of student in studentList
    oldCwd,          \* checkStudents: oldCwd
    errorStudents,   \* checkStudents: errorStudents
    checked,         \* the students for whom checkStudent has returned
    stuOldDir,       \* checkStudent: oldDir
    hasAnyErrors,    \* checkStudent: hasAnyErrors
    personalOutput,  \* checkStudent: personalOutput
    filesToSubmit,   \* doOpArray: filesToSubmit
    hasErrors,       \* doOpArray: hasErrors
    errStringTotal,  \* doOpArray: errStringTotal
    banner,          \* writeHeaderLine: header, filled and the line returned
    badIDs           \* createStudentDirs: badIDs

envVars == <<mode, refs, cfgDir, cfgContent, fs0, banner, badIDs>>

cfgVars == <<config, hwNum>>

batchVars == <<sIdx, oldCwd, errorStudents, checked, stuOldDir, hasAnyErrors, personalOutput>>

handinVars == <<filesToSubmit, hasErrors, errStringTotal>>

compileVars == <<oldDir, tempDir, mIdx>>

vars == <<mode, cfgDir, cfgContent, config, hwNum, fs0, runs, banner, badIDs,
          fs, refs, cwd, tmpDirs, opArray, pc, cur, fIdx, mIdx, calls,
          callBase, ret, raised, oldDir, tempDir, sIdx, oldCwd, errorStudents, checked,
          stuOldDir, hasAnyErrors, personalOutput, filesToSubmit, hasErrors,
          errStringTotal>>

(* ---------------------------- the environment -------------------------- *)

\* The directory the program is started in.
StartDir == <<"start">>

\* checkStudents' handinDir
HandinDir == <<"handin">>

\* checkStudents' hwNum
HwNum == "hw1"

\* checkStudents' studentList
StudentName(i) == "s" \o ToString(i)

\* The directory os.chdir(student) leads to from handinDir.
StudentDir(i) == <<"handin", StudentName(i)>>

\* The directories whose contents the program reads.
DataDirs == {StartDir} \cup {StudentDir(i) : i \in 1..NumStudents}

\* tempfile.mkdtemp(): a directory that does not exist yet.
TmpDir(n) == <<"tmp", ToString(n)>>

mkdtemp(existing) ==
    TmpDir(CHOOSE n \in 0..Cardinality(existing) : TmpDir(n) \notin existing)

\* writeHeaderLine has not been called.
NoBanner == [header |-> <<>>, filled |-> FALSE, line |-> None]

\* An errors.log left by an earlier run.
StaleLog == Some(<<Line(<<>>, "stale")>>)

\* A directory that does not exist.
NoDir == [exists |-> FALSE, files |-> {}, log |-> None]

\* What a student's handin directory can be at the start of a batch run.
StudentDirStates ==
    {NoDir} \cup
    [exists : {TRUE}, files : SUBSET FileNames, log : {None, StaleLog}]

(* ------------------------- the configurations -------------------------- *)

ModuleNames == <<"top", "sub", "alu", "mux">>

\* The values of a record's "specificModules".
ModuleLists == {None} \cup {Some(SubSeq(ModuleNames, 1, n)) : n \in 1..MaxModules}

\* The values of a record's "files".
FileLists == {None, Some(<<"a.sv">>), Some(<<"b.sv", "a.sv">>), Some(<<"*.sv">>)}

Problem(n, f, c, m) ==
    [number |-> Some(n), files |-> f, compileFiles |-> c, testFiles |-> None,
     specificModules |-> m]

\* The first record of a configuration handed to doOpArray.
ProblemRecords ==
    {Problem(n, f, c, m) : n \in {-1, 1}, f \in FileLists,
                           c \in {None, Some(<<"a.sv">>)}, m \in ModuleLists}

\* The records that follow it.
MoreProblems ==
    {Problem(0, Some(<<"b.sv">>), Some(<<"b.sv">>), None),
     Problem(2, Some(<<"a.sv">>), None, None)}

RECURSIVE ConfigsOfLen(_)
ConfigsOfLen(n) ==
    IF n = 1 THEN {<<p>> : p \in ProblemRecords}
    ELSE {Append(c, q) : c \in ConfigsOfLen(n - 1), q \in MoreProblems}

HandinConfigs == UNION {ConfigsOfLen(n) : n \in 1..MaxProblems}

\* The configuration of the batch run: two problems, not in number order.
BatchConfig ==
    << Problem(2, Some(<<"a.sv">>), Some(<<"a.sv">>), None),
       Problem(1, Some(<<"b.sv">>), None, None) >>

\* The same problems in number order.
BatchConfigSorted == <<BatchConfig[2], BatchConfig[1]>>

(* ----------------------- the configuration files ----------------------- *)

\* A file name of cfgDir, in two parts: the name is id + suffix.
CfgName(id, suffix) == [id |-> id, suffix |-> suffix]

\* What json.load gives for a file: a configuration, or an exception.
Json(value) == [valid |-> TRUE, value |-> value]

Malformed == [valid |-> FALSE, value |-> <<>>]

\* str.lower() on the parts of the names that occur
Lower(t) ==
    CASE t = "HW1" -> "hw1"
      [] t = "HW2" -> "hw2"
      [] t = "_CFG.json" -> "_cfg.json"
      [] OTHER -> t

\* searchCfg(hwNum, cfgDir) where os.listdir(cfgDir) gives `listing`: the
\* first name that equals hwNum + "_cfg.json" when both are lower-cased,
\* or None where searchCfg raises NoConfigError.
searchCfg(hw, listing) ==
    LET fileName == CfgName(hw, "_cfg.json")
        hits == SelectSeq(listing, LAMBDA f : /\ Lower(f.id) = Lower(fileName.id)
                                              /\ Lower(f.suffix) = Lower(fileName.suffix))
    IN IF hits = <<>> THEN None ELSE Some(hits[1])

\* parseConfig(configPath) for the file `name` of a directory that holds
\* `listing`, the file holding `content`.
parseConfig(name, listing, content) ==
    IF name \notin Range(listing) THEN [raised |-> "NoConfigError", config |-> <<>>]
    ELSE IF ~content.valid THEN [raised |-> "ParseConfigError", config |-> <<>>]
    ELSE [raised |-> "none", config |-> content.value]

(* -------------------------------- Init --------------------------------- *)

InitCommon ==
    /\ tmpDirs = {}
    /\ cur = 0 /\ fIdx = 0 /\ mIdx = 0
    /\ calls = <<>> /\ callBase = 0 /\ ret = <<>> /\ raised = "none"
    /\ oldDir = StartDir /\ tempDir = StartDir
    /\ sIdx = 0 /\ oldCwd = StartDir /\ errorStudents = <<>> /\ checked = <<>>
    /\ stuOldDir = StartDir /\ hasAnyErrors = FALSE /\ personalOutput = <<>>
    /\ filesToSubmit = {} /\ hasErrors = FALSE /\ errStringTotal = <<>>
    /\ runs = <<>> /\ hwNum = HwNum /\ fs0 = fs
    /\ badIDs = <<>>

\* A batch run about to start: admin.checkStudents(cfgDir, handinDir,
\* studentList, hwNum) has been called in StartDir.
InitBatch ==
    /\ mode = "batch"
    /\ cfgDir = <<CfgName(HwNum, "_cfg.json")>>
    /\ cfgContent = Json(BatchConfig)
    /\ config = <<>>
    /\ banner = NoBanner
    /\ refs = {}
    /\ \E d \in [{StudentDir(i) : i \in 1..NumStudents} -> StudentDirStates] :
         fs = [x \in DataDirs |->
                 IF x = StartDir THEN [exists |-> TRUE, files |-> {}, log |-> None]
                 ELSE d[x]]
    /\ cwd = StartDir
    /\ opArray = <<>>
    /\ pc = "checkStudents"

\* A student's run about to start: makeOpArray(config, refFilePath,
\* skipCompile) has returned in the student's working directory and
\* doOpArray(opArray) has been called.
InitHandin ==
    /\ mode = "handin"
    /\ cfgDir = <<>> /\ cfgContent = Malformed
    /\ config \in HandinConfigs
    /\ banner = NoBanner
    /\ \E present \in SUBSET FileNames, ref \in {None, Some("ref")},
          skip \in BOOLEAN, r \in SUBSET FileNames :
         /\ IsNone(ref) => r = {}
         /\ refs = r
         /\ fs = [x \in DataDirs |->
                    IF x = StartDir
                    THEN [exists |-> TRUE, files |-> present, log |-> None]
                    ELSE NoDir]
         /\ opArray = makeOpArray(config, ref, skip, FALSE, present)
    /\ cwd = StartDir
    /\ pc = "doOpArray"

Init == (InitBatch \/ InitHandin) /\ InitCommon

(* --------------------------- the check pipeline ------------------------ *)

\* The op of the current loop round.
Op == opArray[cur]

\* A record of one external tool invocation: the tool, the files and the
\* module it was given, the directory it ran in, the directory do() was
\* called in, and what the tool answered.
Call(tool, files, module, from, result) ==
    [tool |-> tool, files |-> files, module |-> module, cwd |-> cwd,
     from |-> from, result |-> result]

\* What an invocation of the compiler toolchain can do: exit with status 0,
\* exit with another status (sp.CalledProcessError), or be interrupted by
\* the user (KeyboardInterrupt).
ToolOutcomes == {"ok", "failed", "interrupted"}

\* e.output of the CalledProcessError of an invocation: the transcript the
\* tool printed, which names the invocation it comes from.
Transcript(tool, module) == tool \o " " \o module \o ": Error-[SE] Syntax error"

\* What svinterface.checkInterface can return: "" for a match, or the
\* description of the mismatch.
CompareResults == {"", "port mismatch"}

\* A loop that is left at the first absent file.
ExistenceLoopFirstOnly(op, files, present) ==
    LET absent == SelectSeq(files, LAMBDA f : f \notin present)
    IN IF absent = <<>> THEN op
       ELSE [op EXCEPT !.hasErrors = TRUE,
                       !.err = Append(@, getOpError(<<absent[1]>>, ERR_NOEXIST))]

RECURSIVE ExistenceLoop(_, _, _)
\* Operation.checkExistence, the loop over the files still to test
ExistenceLoop(op, files, present) ==
    IF files = <<>> THEN op
    ELSE LET f == Head(files)
             next == IF f \notin present
                     THEN [op EXCEPT !.hasErrors = TRUE,
                                     !.err = Append(@, getOpError(<<f>>, ERR_NOEXIST))]
                     ELSE op
         IN ExistenceLoop(next, Tail(files), present)

\* Operation.checkExistence in a directory holding the files `present`
checkExistence(op, present) ==
    IF IsNone(op.existFiles) THEN op
    ELSE ExistenceLoop(op, Val(op.existFiles), present)

\* The value do() returns where it tests self.hasErrors.
ErrReturn(op) == Append(op.err, Newline)

\* The existence stage without the return that follows it.
ExistenceStageNoReturn(op, present) ==
    [op |-> checkExistence(op, present), failed |-> FALSE]

\* do(), lines 489-492: the existence stage and the return that follows it.
\* Gives the op and the position after it.
ExistenceStage(op, present) ==
    IF IsNone(op.existFiles) THEN [op |-> op, failed |-> FALSE]
    ELSE LET o == checkExistence(op, present)
         IN [op |-> o, failed |-> o.hasErrors]

\* The interface stage entered whatever the problem number is.
InterfaceAppliesAnyNumber(op) == ~IsNone(op.refFilePath)

\* do(), line 493, and checkInterface's test of self.number: whether the
\* loop over the files is entered.
InterfaceApplies(op) == ~IsNone(op.refFilePath) /\ ~(Val(op.number) < 0)

\* A handler that notes the text and leaves the flag.
compilationErrHandlerTextOnly(op, fileList, output) ==
    [op EXCEPT !.err = @ \o <<getOpError(fileList, ERR_NOCOMPILE), Line(<<>>, output)>>]

\* Operation.compilationErrHandler
compilationErrHandler(op, fileList, output) ==
    [op EXCEPT !.hasErrors = TRUE,
               !.err = @ \o <<getOpError(fileList, ERR_NOCOMPILE), Line(<<>>, output)>>]

\* do(), line 497: whether checkCompilation is called.
CompileApplies(op) == ~op.skipCompile /\ ~IsNone(op.compileFiles)

\* A return of the diagnostic text whether or not there was an error.
ReturnErrAlways(op) ==
    /\ ret' = ErrReturn(op)
    /\ pc' = "returned"

\* do(), lines 499-501: the return after checkCompilation
Return(op) ==
    /\ ret' = IF op.hasErrors THEN ErrReturn(op) ELSE <<>>
    /\ pc' = "returned"

\* do(), lines 489-492, called on the op at `cur`, which the caller has
\* cleared and hands over as `op`.
DoBegin(op) ==
    LET st == ExistenceStage(op, fs[cwd].files)
    IN /\ opArray' = [opArray EXCEPT ![cur] = st.op]
       /\ runs' = Append(runs, [dir |-> cwd, number |-> op.number])
       /\ calls' = calls
       /\ callBase' = Len(calls)
       /\ IF st.failed
          THEN /\ ret' = ErrReturn(st.op)
               /\ pc' = "returned"
          ELSE /\ ret' = <<>>
               /\ pc' = "do_interface"

\* do(), lines 493-494, up to the loop of checkInterface
DoInterface ==
    /\ pc = "do_interface"
    /\ IF InterfaceApplies(Op) /\ ~IsNone(Op.existFiles)
       THEN pc' = "checkInterface" /\ fIdx' = 1
       ELSE pc' = "do_compile" /\ fIdx' = fIdx
    /\ UNCHANGED <<envVars, cfgVars, runs,
                   fs, cwd, tmpDirs, opArray, cur, calls, callBase, ret, raised,
                   compileVars, batchVars, handinVars>>

\* One round of the loop that leaves the loop at the first mismatch.
CheckInterfaceFileBreak ==
    /\ pc = "checkInterface"
    /\ fIdx <= Len(Val(Op.existFiles))
    /\ LET f == Val(Op.existFiles)[fIdx]
       IN IF f \notin refs
          THEN /\ fIdx' = fIdx + 1
               /\ UNCHANGED <<opArray, calls, callBase>>
          ELSE \E compareResult \in CompareResults :
                 /\ calls' = Append(calls, Call("checkInterface", <<f>>, "", cwd,
                                                 compareResult))
                 /\ opArray' =
                      IF compareResult # ""
                      THEN [opArray EXCEPT
                              ![cur].hasErrors = TRUE,
                              ![cur].err = @ \o <<getOpError(<<f>>, ERR_BADINTERF),
                                                  Line(<<>>, compareResult)>>]
                      ELSE opArray
                 /\ fIdx' = IF compareResult # ""
                            THEN Len(Val(Op.existFiles)) + 1
                            ELSE fIdx + 1
    /\ UNCHANGED <<envVars, cfgVars, runs,
                   fs, cwd, tmpDirs, pc, cur, callBase, ret, raised,
                   compileVars, batchVars, handinVars>>

\* checkInterface, one round of the loop over existFiles: the file has no
\* reference and is passed over, or the comparator is called on it.
CheckInterfaceFile ==
    /\ pc = "checkInterface"
    /\ fIdx <= Len(Val(Op.existFiles))
    /\ LET f == Val(Op.existFiles)[fIdx]
       IN IF f \notin refs
          THEN UNCHANGED <<opArray, calls, callBase>>
          ELSE \E compareResult \in CompareResults :
                 /\ calls' = Append(calls, Call("checkInterface", <<f>>, "", cwd,
                                                 compareResult))
                 /\ opArray' =
                      IF compareResult # ""
                      THEN [opArray EXCEPT
                              ![cur].hasErrors = TRUE,
                              ![cur].err = @ \o <<getOpError(<<f>>, ERR_BADINTERF),
                                                  Line(<<>>, compareResult)>>]
                      ELSE opArray
    /\ fIdx' = fIdx + 1
    /\ UNCHANGED <<envVars, cfgVars, runs,
                   fs, cwd, tmpDirs, pc, cur, callBase, ret, raised,
                   compileVars, batchVars, handinVars>>

\* checkInterface returns, and do(), lines 495-496
CheckInterfaceEnd ==
    /\ pc = "checkInterface"
    /\ fIdx > Len(Val(Op.existFiles))
    /\ IF Op.hasErrors
       THEN ret' = ErrReturn(Op) /\ pc' = "returned"
       ELSE ret' = ret /\ pc' = "do_compile"
    /\ UNCHANGED <<envVars, cfgVars, runs,
                   fs, cwd, tmpDirs, opArray, cur, fIdx, calls, callBase, raised,
                   compileVars, batchVars, handinVars>>

\* do(), line 497, when the compilation stage is skipped: do() returns ""
DoSkipCompile ==
    /\ pc = "do_compile"
    /\ ~CompileApplies(Op)
    /\ ret' = <<>>
    /\ pc' = "returned"
    /\ UNCHANGED <<envVars, cfgVars, runs,
                   fs, cwd, tmpDirs, opArray, cur, fIdx, calls, callBase, raised,
                   compileVars, batchVars, handinVars>>

\* checkCompilation, lines 433-446: the temporary directory is created and
\* entered.
CompileEnter ==
    /\ pc = "do_compile"
    /\ CompileApplies(Op)
    /\ oldDir' = cwd
    /\ tempDir' = mkdtemp(tmpDirs)
    /\ tmpDirs' = tmpDirs \cup {tempDir'}
    /\ cwd' = tempDir'
    /\ mIdx' = 1
    /\ pc' = IF IsNone(Op.specificModules) THEN "vcs" ELSE "vlogan"
    /\ UNCHANGED <<envVars, cfgVars, runs,
                   fs, opArray, cur, fIdx, calls, callBase, ret, raised,
                   batchVars, handinVars>>

\* The list checkCompilation hands to the tools is compileFiles with oldDir
\* put before each name; removeOldDir takes it off again for the message.
FileList == Val(Op.compileFiles)

\* One invocation of the toolchain and what checkCompilation does with its
\* outcome: `onOk` and `onFailed` are the positions after a success and
\* after a CalledProcessError; a KeyboardInterrupt leads to the finally
\* clause with the exception in flight.
Invoke(tool, files, module, outcome, onOk, onFailed) ==
    /\ calls' = Append(calls, Call(tool, files, module, oldDir, outcome))
    /\ opArray' = IF outcome = "failed"
                  THEN [opArray EXCEPT
                          ![cur] = compilationErrHandler(@, FileList,
                                                         Transcript(tool, module))]
                  ELSE opArray
    /\ raised' = IF outcome = "interrupted" THEN "KeyboardInterrupt" ELSE raised
    /\ pc' = CASE outcome = "ok" -> onOk
               [] outcome = "failed" -> onFailed
               [] outcome = "interrupted" -> "finally"

\* The analysis pass without the return after its failure.
VloganNoReturn ==
    /\ pc = "vlogan"
    /\ \E outcome \in ToolOutcomes :
         Invoke("vlogan", FileList, "", outcome, "modules", "modules")
    /\ UNCHANGED <<envVars, cfgVars, runs,
                   fs, cwd, tmpDirs, cur, fIdx, callBase, ret,
                   compileVars, batchVars, handinVars>>

\* checkCompilation, lines 450-455: the analysis pass
Vlogan ==
    /\ pc = "vlogan"
    /\ \E outcome \in ToolOutcomes :
         Invoke("vlogan", FileList, "", outcome, "modules", "finally")
    /\ UNCHANGED <<envVars, cfgVars, runs,
                   fs, cwd, tmpDirs, cur, fIdx, callBase, ret,
                   compileVars, batchVars, handinVars>>

\* The loop over the modules left at the first module that fails.
VcsModuleStopAtFailure ==
    /\ pc = "modules"
    /\ mIdx <= Len(Val(Op.specificModules))
    /\ \E outcome \in ToolOutcomes :
         Invoke("vcs", <<>>, Val(Op.specificModules)[mIdx], outcome, "modules", "finally")
    /\ mIdx' = mIdx + 1
    /\ UNCHANGED <<envVars, cfgVars, runs,
                   fs, cwd, tmpDirs, cur, fIdx, callBase, ret, oldDir, tempDir,
                   batchVars, handinVars>>

\* checkCompilation, lines 456-461: one round of the loop over the modules
VcsModule ==
    /\ pc = "modules"
    /\ mIdx <= Len(Val(Op.specificModules))
    /\ \E outcome \in ToolOutcomes :
         Invoke("vcs", <<>>, Val(Op.specificModules)[mIdx], outcome, "modules", "modules")
    /\ mIdx' = mIdx + 1
    /\ UNCHANGED <<envVars, cfgVars, runs,
                   fs, cwd, tmpDirs, cur, fIdx, callBase, ret, oldDir, tempDir,
                   batchVars, handinVars>>

\* checkCompilation, the loop over the modules has ended
ModulesEnd ==
    /\ pc = "modules"
    /\ mIdx > Len(Val(Op.specificModules))
    /\ pc' = "finally"
    /\ UNCHANGED <<envVars, cfgVars, runs,
                   fs, cwd, tmpDirs, opArray, cur, fIdx, calls, callBase, ret, raised,
                   compileVars, batchVars, handinVars>>

\* checkCompilation, lines 463-467: the whole-file compilation
VcsWhole ==
    /\ pc = "vcs"
    /\ \E outcome \in ToolOutcomes :
         Invoke("vcs", FileList, "", outcome, "finally", "finally")
    /\ UNCHANGED <<envVars, cfgVars, runs,
                   fs, cwd, tmpDirs, cur, fIdx, callBase, ret,
                   compileVars, batchVars, handinVars>>

\* A cleanup that an exception in flight passes by.
CleanupUnlessRaised ==
    IF raised = "none"
    THEN cwd' = oldDir /\ tmpDirs' = tmpDirs \ {tempDir}
    ELSE UNCHANGED <<cwd, tmpDirs>>

\* The finally clause of checkCompilation
Cleanup ==
    /\ cwd' = oldDir
    /\ tmpDirs' = tmpDirs \ {tempDir}

\* checkCompilation, lines 474-477, and what follows: do() returns (lines
\* 499-501), or the KeyboardInterrupt leaves do() and its callers, none of
\* which handles it.
CompileFinally ==
    /\ pc = "finally"
    /\ Cleanup
    /\ IF raised = "none"
       THEN Return(Op)
       ELSE ret' = ret /\ pc' = "aborted"
    /\ UNCHANGED <<envVars, cfgVars, runs,
                   fs, opArray, cur, fIdx, calls, callBase, raised,
                   compileVars, batchVars, handinVars>>

(* ------------------------- utils.doOpArray ----------------------------- *)

\* doOpArray, lines 529-535: the next op is cleared, its files are added to
\* filesToSubmit and do() is called on it.
DoOpArrayLoop ==
    /\ mode = "handin"
    /\ pc = "op"
    /\ cur <= Len(opArray)
    /\ filesToSubmit' =
         filesToSubmit
         \cup (IF IsNone(Op.existFiles) THEN {} ELSE Range(Val(Op.existFiles)))
         \cup (IF IsNone(Op.compileFiles) THEN {} ELSE Range(Val(Op.compileFiles)))
    /\ DoBegin(clearErrors(Op))
    /\ UNCHANGED <<envVars, cfgVars,
                   fs, cwd, tmpDirs, cur, fIdx, raised, compileVars,
                   batchVars, hasErrors, errStringTotal>>

\* doOpArray, lines 536-539: do() has returned errString
DoOpArrayAfterDo ==
    /\ mode = "handin"
    /\ pc = "returned"
    /\ IF Op.hasErrors
       THEN /\ hasErrors' = TRUE
            /\ errStringTotal' =
                 errStringTotal \o <<ProblemHeaderOf(Op.number)>> \o ret
       ELSE UNCHANGED <<hasErrors, errStringTotal>>
    /\ cur' = cur + 1
    /\ pc' = "op"
    /\ UNCHANGED <<envVars, cfgVars, runs,
                   fs, cwd, tmpDirs, opArray, fIdx, calls, callBase, ret, raised,
                   compileVars, batchVars, filesToSubmit>>

\* doOpArray is called (lines 525-527) ...
DoOpArrayBegin ==
    /\ pc = "doOpArray"
    /\ errStringTotal' = <<>>
    /\ hasErrors' = FALSE
    /\ filesToSubmit' = {}
    /\ cur' = 1
    /\ pc' = "op"
    /\ UNCHANGED <<envVars, cfgVars, runs,
                   fs, cwd, tmpDirs, opArray, fIdx, calls, callBase, ret, raised,
                   compileVars, batchVars>>

\* ... and returns (line 540)
DoOpArrayEnd ==
    /\ mode = "handin"
    /\ pc = "op"
    /\ cur > Len(opArray)
    /\ pc' = "done"
    /\ UNCHANGED <<envVars, cfgVars, runs,
                   fs, cwd, tmpDirs, opArray, cur, fIdx, calls, callBase, ret, raised,
                   compileVars, batchVars, handinVars>>

(* ------------------ admin.checkStudents, checkStudent ------------------- *)

\* checkStudents, lines 148-153: the configuration file is looked up, the
\* case-proper hwNum is cut out of its path, the file is parsed and the ops
\* are made. Gives the exception raised on the way (or "none"), hwNum and
\* the configuration.
LoadConfig ==
    LET found == searchCfg(HwNum, cfgDir)
    IN IF IsNone(found)
       THEN [raised |-> "NoConfigError", hwNum |-> HwNum, config |-> <<>>]
       ELSE IF Val(found).suffix # "_cfg.json"
       THEN \* cfgPath.index("_cfg.json"): substring not found
            [raised |-> "ValueError", hwNum |-> HwNum, config |-> <<>>]
       ELSE LET h == Val(found).id
                parsed == parseConfig(CfgName(h, "_cfg.json"), cfgDir, cfgContent)
            IN [raised |-> IF parsed.raised # "none" THEN parsed.raised
                           ELSE makeOpArrayRaises(parsed.config),
                hwNum  |-> h,
                config |-> parsed.config]

\* checkStudents, lines 148-158, with the directory the run is in when an
\* exception leaves it.
CheckStudentsBeginWith(dirOnError) ==
    /\ pc = "checkStudents"
    /\ LET l == LoadConfig
       IN /\ hwNum' = l.hwNum
          /\ config' = l.config
          /\ IF l.raised # "none"
             THEN /\ raised' = l.raised
                  /\ pc' = "aborted"
                  /\ cwd' = dirOnError
                  /\ UNCHANGED <<opArray, oldCwd, errorStudents, sIdx>>
             ELSE /\ opArray' = makeOpArray(l.config, None, FALSE, TRUE, fs[cwd].files)
                  /\ oldCwd' = cwd
                  /\ cwd' = HandinDir
                  /\ errorStudents' = <<>>
                  /\ sIdx' = 1
                  /\ pc' = "student"
                  /\ raised' = raised
    /\ UNCHANGED <<envVars, runs, fs, tmpDirs, cur, fIdx, calls, callBase, ret,
                   compileVars, checked, stuOldDir, hasAnyErrors, personalOutput,
                   handinVars>>

\* handinDir entered before the configuration is loaded.
CheckStudentsBeginChdirFirst == CheckStudentsBeginWith(HandinDir)

\* checkStudents, lines 148-158: the configuration is loaded, the ops are
\* made (in the directory the run was started in) and handinDir is entered.
CheckStudentsBegin == CheckStudentsBeginWith(cwd)

\* checkStudent, lines 123-128: os.chdir(studentDir) enters the student's
\* directory, or raises FileNotFoundError when there is none; nothing in
\* checkStudent or checkStudents handles the exception.
CheckStudentBegin ==
    /\ pc = "student"
    /\ sIdx <= NumStudents
    /\ personalOutput' = getOutputHeader(StudentName(sIdx), hwNum)
    /\ hasAnyErrors' = FALSE
    /\ stuOldDir' = cwd
    /\ IF fs[StudentDir(sIdx)].exists
       THEN /\ cwd' = StudentDir(sIdx)
            /\ cur' = 1
            /\ pc' = "op"
            /\ raised' = raised
       ELSE /\ raised' = "FileNotFoundError"
            /\ pc' = "aborted"
            /\ UNCHANGED <<cwd, cur>>
    /\ UNCHANGED <<envVars, cfgVars, runs,
                   fs, tmpDirs, opArray, fIdx, calls, callBase, ret, compileVars,
                   sIdx, oldCwd, errorStudents, checked, handinVars>>

\* checkStudent, lines 129-131: the next op is cleared and do() is called
CheckStudentLoop ==
    /\ mode = "batch"
    /\ pc = "op"
    /\ cur <= Len(opArray)
    /\ DoBegin(clearErrors(Op))
    /\ UNCHANGED <<envVars, cfgVars,
                   fs, cwd, tmpDirs, cur, fIdx, raised, compileVars,
                   batchVars, handinVars>>

\* checkStudent, lines 132-135: do() has returned errString
CheckStudentAfterDo ==
    /\ mode = "batch"
    /\ pc = "returned"
    /\ IF Op.hasErrors
       THEN /\ hasAnyErrors' = TRUE
            /\ personalOutput' =
                 personalOutput \o <<ProblemHeaderOf(Op.number)>> \o ret
       ELSE UNCHANGED <<hasAnyErrors, personalOutput>>
    /\ cur' = cur + 1
    /\ pc' = "op"
    /\ UNCHANGED <<envVars, cfgVars, runs,
                   fs, cwd, tmpDirs, opArray, fIdx, calls, callBase, ret, raised,
                   compileVars, sIdx, oldCwd, errorStudents, checked, stuOldDir,
                   handinVars>>

\* createErrLog(contents) in the current directory
createErrLog(contents) == [fs EXCEPT ![cwd].log = Some(contents)]

\* An errors.log that is there is left there.
keepErrLog == fs

\* os.remove('./errors.log') if it exists
removeErrLog == [fs EXCEPT ![cwd].log = None]

\* Every student's report kept.
CollectAll(errOuts, failed, errOut) == Append(errOuts, errOut)

\* checkStudents, lines 162-163
Collect(errOuts, failed, errOut) ==
    IF failed THEN Append(errOuts, errOut) ELSE errOuts

\* checkStudent, lines 136-144, and checkStudents, lines 161-163: the log
\* is written or removed, the directory is left, and the caller keeps the
\* report of a student with errors.
CheckStudentEnd ==
    /\ mode = "batch"
    /\ pc = "op"
    /\ cur > Len(opArray)
    /\ fs' = IF hasAnyErrors THEN createErrLog(personalOutput) ELSE removeErrLog
    /\ cwd' = stuOldDir
    /\ errorStudents' = Collect(errorStudents, hasAnyErrors, personalOutput)
    /\ checked' = Append(checked, StudentName(sIdx))
    /\ sIdx' = sIdx + 1
    /\ pc' = "student"
    /\ UNCHANGED <<envVars, cfgVars, runs,
                   tmpDirs, opArray, cur, fIdx, calls, callBase, ret, raised,
                   compileVars, oldCwd, stuOldDir, hasAnyErrors, personalOutput,
                   handinVars>>

\* checkStudents, lines 164-165: the loop over the students has ended
CheckStudentsEnd ==
    /\ pc = "student"
    /\ sIdx > NumStudents
    /\ cwd' = oldCwd
    /\ pc' = "done"
    /\ UNCHANGED <<envVars, cfgVars, runs,
                   fs, tmpDirs, opArray, cur, fIdx, calls, callBase, ret, raised,
                   compileVars, batchVars, handinVars>>

(* ------------------------------ behaviours ----------------------------- *)

Next ==
    \/ DoOpArrayBegin
    \/ DoOpArrayLoop
    \/ DoOpArrayAfterDo
    \/ DoOpArrayEnd
    \/ CheckStudentsBegin
    \/ CheckStudentBegin
    \/ CheckStudentLoop
    \/ CheckStudentAfterDo
    \/ CheckStudentEnd
    \/ CheckStudentsEnd
    \/ DoInterface
    \/ CheckInterfaceFile
    \/ CheckInterfaceEnd
    \/ DoSkipCompile
    \/ CompileEnter
    \/ Vlogan
    \/ VcsModule
    \/ ModulesEnd
    \/ VcsWhole
    \/ CompileFinally

Spec == Init /\ [][Next]_vars

(* --------------- a batch run over any configuration file --------------- *)

\* The file names of cfgDir.
CfgNames == {CfgName(i, x) : i \in {"hw1", "HW1", "hw2"}, x \in {"_cfg.json", "_CFG.json"}}

\* os.listdir(cfgDir): up to MaxCfgFiles names, no name twice, in any order.
CfgListings ==
    {l \in UNION {[1..n -> CfgNames] : n \in 0..MaxCfgFiles} :
       \A i, j \in 1..Len(l) : i # j => l[i] # l[j]}

\* A problem record that gives every key a value.
FullProblem == Problem(1, Some(<<"a.sv">>), Some(<<"a.sv">>), Some(<<"top">>))

\* The record p without the key k.
Omit(p, k) == [x \in (DOMAIN p) \ {k} |-> p[x]]

\* The record p with null for the key k.
Null(p, k) == [p EXCEPT ![k] = None]

\* What the configuration file can hold.
CfgContents ==
    {Malformed, Json(BatchConfig), Json(BatchConfigSorted), Json(<<FullProblem>>),
     Json(<<Null(BatchConfig[1], "number"), BatchConfig[2]>>)}
    \cup {Json(<<Omit(FullProblem, k)>>) : k \in ProblemKeys}
    \cup {Json(<<Null(FullProblem, k)>>) : k \in ProblemKeys}

\* A configuration whose one problem names its files by a wildcard only.
WildcardConfig == <<Problem(1, Some(<<"*.sv">>), Some(<<"a.sv">>), None)>>

\* Every student has handed in every file and has an errors.log of an
\* earlier run; the directory the run is started in is empty.
FullHandin ==
    [x \in DataDirs |->
       IF x = StartDir THEN [exists |-> TRUE, files |-> {}, log |-> None]
       ELSE [exists |-> TRUE, files |-> FileNames, log |-> StaleLog]]

\* admin.checkStudents(cfgDir, handinDir, studentList, hwNum) has been
\* called in StartDir: cfgDir holds any files and the configuration file
\* is well-formed or not, or it holds the one file and the file holds
\* anything, the students having handed in every file; or the
\* configuration is the one with the wildcard, the directory of the run
\* holds every file or none and each student has handed in any files.
InitConfig ==
    /\ mode = "batch"
    /\ \/ /\ cfgDir \in CfgListings /\ cfgContent \in {Json(BatchConfig), Malformed}
          /\ fs = FullHandin
       \/ /\ cfgDir = <<CfgName(HwNum, "_cfg.json")>> /\ cfgContent \in CfgContents
          /\ fs = FullHandin
       \/ /\ cfgDir = <<CfgName(HwNum, "_cfg.json")>> /\ cfgContent = Json(WildcardConfig)
          /\ \E here \in {{}, FileNames},
                handed \in [{StudentDir(i) : i \in 1..NumStudents} -> SUBSET FileNames] :
               fs = [x \in DataDirs |->
                       IF x = StartDir
                       THEN [exists |-> TRUE, files |-> here, log |-> None]
                       ELSE [exists |-> TRUE, files |-> handed[x], log |-> StaleLog]]
    /\ config = <<>>
    /\ banner = NoBanner
    /\ refs = {}
    /\ cwd = StartDir
    /\ opArray = <<>>
    /\ pc = "checkStudents"
    /\ InitCommon

NextConfig ==
    \/ CheckStudentsBegin
    \/ CheckStudentBegin
    \/ CheckStudentLoop
    \/ CheckStudentAfterDo
    \/ CheckStudentEnd
    \/ CheckStudentsEnd
    \/ DoInterface
    \/ DoSkipCompile
    \/ CompileEnter
    \/ Vlogan
    \/ VcsModule
    \/ ModulesEnd
    \/ VcsWhole
    \/ CompileFinally

SpecConfig == InitConfig /\ [][NextConfig]_vars

(* ------------------ the wildcard resolution on its own ----------------- *)

\* The values of "files" and "compileFiles": None, or a list of file names
\* and patterns, in any order, with repetitions.
RawLists ==
    {None} \cup
    {Some(l) : l \in UNION {[1..n -> FileNames \cup Patterns] : n \in 0..MaxListLen}}

\* A problem record has been read and an Operation constructed for it, in
\* a directory that holds any of the files.
InitWildcard ==
    /\ mode = "parseProblem"
    /\ cfgDir = <<>> /\ cfgContent = Malformed
    /\ \E f \in RawLists, c \in RawLists : config = <<Problem(1, f, c, None)>>
    /\ banner = NoBanner
    /\ refs = {}
    /\ \E present \in SUBSET FileNames :
         fs = [x \in DataDirs |->
                 IF x = StartDir
                 THEN [exists |-> TRUE, files |-> present, log |-> None]
                 ELSE NoDir]
    /\ cwd = StartDir
    /\ opArray = <<NewOperation(None, FALSE, FALSE)>>
    /\ pc = "parseProblem"
    /\ InitCommon

\* op.parseProblem(p), which ends with self.checkWildcard()
ParseProblemCall ==
    /\ pc = "parseProblem"
    /\ opArray' = <<parseProblem(opArray[1], config[1], fs[cwd].files)>>
    /\ pc' = "parsed"
    /\ UNCHANGED <<envVars, cfgVars, runs, fs, cwd, tmpDirs, cur, fIdx, calls, callBase,
                   ret, raised, compileVars, batchVars, handinVars>>

\* op.checkWildcard() called once more, in the same directory
CheckWildcardAgain ==
    /\ pc = "parsed"
    /\ opArray' = <<checkWildcard(opArray[1], fs[cwd].files)>>
    /\ pc' = "resolved"
    /\ UNCHANGED <<envVars, cfgVars, runs, fs, cwd, tmpDirs, cur, fIdx, calls, callBase,
                   ret, raised, compileVars, batchVars, handinVars>>

NextWildcard == ParseProblemCall \/ CheckWildcardAgain

SpecWildcard == InitWildcard /\ [][NextWildcard]_vars

(* ---------------------- writeHeaderLine on its own --------------------- *)

\* writeHeaderLine's headerLen
headerLen == 80

\* The string c * n: empty when n is not positive.
Rep(c, n) == [i \in 1..n |-> c]

\* writeHeaderLine(header, filled), strings being sequences of characters
writeHeaderLine(header, filled) ==
    LET maxLen == headerLen - 2
        h == <<" ">> \o header \o <<" ">>
        remaining == maxLen - Len(h)
        firstHalf == remaining \div 2
        secondHalf == remaining - firstHalf
        filler == IF filled THEN "*" ELSE " "
    IN <<"*">> \o Rep(filler, firstHalf) \o h \o Rep(filler, secondHalf)
       \o <<"*">> \o <<"\n">>

\* writeHeaderLine is about to be called on a text of any length up to
\* MaxHeaderLen, filled or not.
InitHeader ==
    /\ mode = "writeHeaderLine"
    /\ cfgDir = <<>> /\ cfgContent = Malformed
    /\ config = <<>>
    /\ \E n \in 0..MaxHeaderLen, filled \in BOOLEAN :
         banner = [header |-> Rep("x", n), filled |-> filled, line |-> None]
    /\ refs = {}
    /\ fs = [x \in DataDirs |-> NoDir]
    /\ cwd = StartDir
    /\ opArray = <<>>
    /\ pc = "writeHeaderLine"
    /\ InitCommon

\* The call and its return
WriteHeaderLineCall ==
    /\ pc = "writeHeaderLine"
    /\ banner' = [banner EXCEPT !.line = Some(writeHeaderLine(banner.header, banner.filled))]
    /\ pc' = "done"
    /\ UNCHANGED <<mode, refs, cfgDir, cfgContent, fs0, badIDs, cfgVars, runs, fs, cwd,
                   tmpDirs, opArray, cur, fIdx, calls, callBase, ret, raised,
                   compileVars, batchVars, handinVars>>

NextHeader == WriteHeaderLineCall

SpecHeader == InitHeader /\ [][NextHeader]_vars

(* ----------------------- admin.createStudentDirs ----------------------- *)

\* What sp.check_call of an fs command, or os.mkdir, can do: return, or
\* raise (sp.CalledProcessError, OSError).
StepOutcomes == {"ok", "failed"}

\* The three fs commands of openStudentPerms.
FsDefault == "fs sa -clear -acl"

FsStudent == "fs sa studentID write"

FsEmail == "fs sa studentID@andrew.cmu.edu write"

\* openStudentPerms(studentID, path) when the three commands, as far as
\* they are run, end as d, s and e: the commands run, with their results,
\* and the value returned (None as <<>>).
openStudentPerms(studentID, d, s, e) ==
    IF d = "failed"
    THEN [ran |-> <<Call(FsDefault, <<studentID>>, "", cwd, d)>>, retVal |-> None]
    ELSE [ran |-> <<Call(FsDefault, <<studentID>>, "", cwd, d),
                    Call(FsStudent, <<studentID>>, "", cwd, s),
                    Call(FsEmail, <<studentID>>, "", cwd, e)>>,
          retVal |-> IF s = "failed" /\ e = "failed" THEN Some(studentID) ELSE None]

\* createStudentDirs(handinDir, studentList) has been called; each
\* student's directory exists already or not.
InitDirs ==
    /\ mode = "createStudentDirs"
    /\ cfgDir = <<>> /\ cfgContent = Malformed
    /\ config = <<>>
    /\ banner = NoBanner
    /\ refs = {}
    /\ \E there \in SUBSET (1..NumStudents) :
         fs = [x \in DataDirs |->
                 IF x = StartDir \/ \E i \in there : x = StudentDir(i)
                 THEN [exists |-> TRUE, files |-> {}, log |-> None]
                 ELSE NoDir]
    /\ cwd = StartDir
    /\ opArray = <<>>
    /\ pc = "createStudentDirs"
    /\ InitCommon

\* createStudentDirs, lines 70-71
CreateStudentDirsBegin ==
    /\ pc = "createStudentDirs"
    /\ badIDs' = <<>>
    /\ sIdx' = 1
    /\ pc' = "createDir"
    /\ UNCHANGED <<mode, refs, cfgDir, cfgContent, fs0, banner, cfgVars, runs, fs, cwd,
                   tmpDirs, opArray, cur, fIdx, calls, callBase, ret, raised,
                   compileVars, oldCwd, errorStudents, checked, stuOldDir, hasAnyErrors,
                   personalOutput, handinVars>>

\* createStudentDirs, lines 71-79, one round of the loop: the directory is
\* made if it is not there (an OSError of os.mkdir is not handled), the
\* permissions are set, and the student is kept as bad if openStudentPerms
\* returned the ID.
CreateStudentDir ==
    /\ pc = "createDir"
    /\ sIdx <= NumStudents
    /\ LET student == StudentName(sIdx)
           path == StudentDir(sIdx)
       IN \E mk \in StepOutcomes, d \in StepOutcomes, s \in StepOutcomes,
             e \in StepOutcomes :
            IF ~fs[path].exists /\ mk = "failed"
            THEN /\ raised' = "OSError"
                 /\ pc' = "aborted"
                 /\ calls' = Append(calls, Call("os.mkdir", <<student>>, "", cwd, mk))
                 /\ UNCHANGED <<fs, badIDs, sIdx>>
            ELSE LET r == openStudentPerms(student, d, s, e)
                 IN /\ fs' = [fs EXCEPT ![path].exists = TRUE]
                    /\ calls' = calls \o r.ran
                    /\ badIDs' = IF ~IsNone(r.retVal) THEN Append(badIDs, student)
                                 ELSE badIDs
                    /\ sIdx' = sIdx + 1
                    /\ UNCHANGED <<raised, pc>>
    /\ UNCHANGED <<mode, refs, cfgDir, cfgContent, fs0, banner, cfgVars, runs, cwd,
                   tmpDirs, opArray, cur, fIdx, callBase, ret,
                   compileVars, oldCwd, errorStudents, checked, stuOldDir, hasAnyErrors,
                   personalOutput, handinVars>>

\* createStudentDirs, lines 80-81: the loop has ended
CreateStudentDirsEnd ==
    /\ pc = "createDir"
    /\ sIdx > NumStudents
    /\ pc' = "done"
    /\ UNCHANGED <<envVars, cfgVars, runs, fs, cwd, tmpDirs, opArray, cur, fIdx, calls,
                   callBase, ret, raised, compileVars, batchVars, handinVars>>

NextDirs == CreateStudentDirsBegin \/ CreateStudentDir \/ CreateStudentDirsEnd

SpecDirs == InitDirs /\ [][NextDirs]_vars

(* ------------------------- terms of the properties --------------------- *)

\* The directory do() is called in: the student's directory in a batch run,
\* the directory doOpArray was called in otherwise.
WorkDir == IF mode = "batch" THEN StudentDir(sIdx) ELSE StartDir

\* The files of that directory.
WorkFiles == fs[WorkDir].files

\* The control is inside a do() call on Op, or that call has just returned,
\* or a KeyboardInterrupt has left it.
InDo ==
    \/ pc \in {"do_interface", "checkInterface", "do_compile", "vlogan", "modules",
               "vcs", "finally", "returned"}
    \/ pc = "aborted" /\ raised = "KeyboardInterrupt"

\* The control is inside checkCompilation's try statement.
InCompile == pc \in {"vlogan", "modules", "vcs", "finally"}

\* The tool invocations of the current (or last) do() call.
DoCalls == SubSeq(calls, callBase + 1, Len(calls))

\* The entries of Op's existFiles that are absent from the directory.
MissingFiles ==
    IF IsNone(Op.existFiles) THEN <<>>
    ELSE SelectSeq(Val(Op.existFiles), LAMBDA f : f \notin WorkFiles)

IsCompilerCall(c) == c.tool \in {"vlogan", "vcs"}

IsComparatorCall(c) == c.tool = "checkInterface"

\* Line kinds of the error taxonomy.
FileMissing(f) == Line(<<f>>, "file does not exist")

InterfaceMismatch(f) == Line(<<f>>, "incorrect interface")

CompileFailed(files) == Line(files, "failed to compile")

\* The diagnostic lines that one tool invocation of do() on `op` calls for.
LinesOfCall(op, c) ==
    IF IsComparatorCall(c) /\ c.result # ""
    THEN <<InterfaceMismatch(c.files[1]), Line(<<>>, c.result)>>
    ELSE IF IsCompilerCall(c) /\ c.result = "failed"
    THEN <<CompileFailed(Val(op.compileFiles)), Line(<<>>, Transcript(c.tool, c.module))>>
    ELSE <<>>

RECURSIVE LinesOfCalls(_, _)
LinesOfCalls(op, cs) ==
    IF cs = <<>> THEN <<>> ELSE LinesOfCall(op, Head(cs)) \o LinesOfCalls(op, Tail(cs))

\* The diagnostic text that the directory and the tool answers of this
\* do() call alone account for.
OwnDiagnostics ==
    IF MissingFiles # <<>>
    THEN [i \in 1..Len(MissingFiles) |-> FileMissing(MissingFiles[i])]
    ELSE LinesOfCalls(Op, DoCalls)

RECURSIVE BlocksOf(_, _)
\* The report blocks of the ops 1..n of opArray that have errors.
BlocksOf(ops, n) ==
    IF n = 0 THEN <<>>
    ELSE BlocksOf(ops, n - 1)
         \o (IF ops[n].hasErrors
             THEN <<ProblemHeader(Val(ops[n].number))>> \o ops[n].err \o <<Newline>>
             ELSE <<>>)

\* The modules of the vcs invocations of this do() call, in order.
ModulesBuilt ==
    LET vcs == SelectSeq(DoCalls, LAMBDA c : c.tool = "vcs")
    IN [i \in 1..Len(vcs) |-> vcs[i].module]

VloganResult(r) == \E i \in 1..Len(DoCalls) : DoCalls[i].tool = "vlogan" /\ DoCalls[i].result = r

\* Whether student i has a failing problem: a file of some problem is
\* absent from the student's directory, or a tool invocation made from that
\* directory failed.
StudentFails(i) ==
    \/ \E k \in 1..Len(opArray) :
         /\ ~IsNone(opArray[k].existFiles)
         /\ \E f \in Range(Val(opArray[k].existFiles)) : f \notin fs[StudentDir(i)].files
    \/ \E k \in 1..Len(calls) :
         calls[k].from = StudentDir(i) /\ calls[k].result \notin {"ok", ""}

RECURSIVE FailingUpTo(_)
\* The students 1..n that have a failing problem, in roster order.
FailingUpTo(n) ==
    IF n = 0 THEN <<>>
    ELSE FailingUpTo(n - 1) \o (IF StudentFails(n) THEN <<n>> ELSE <<>>)

BatchEnded == mode = "batch" /\ pc \in {"done", "aborted"}

(* ------------------------------ properties ----------------------------- *)

\* C1: while do() runs on a problem one of whose existFiles is absent from
\* the working directory, and when it has returned, no interface comparison
\* and no vlogan/vcs invocation has been made for it; do() has returned the
\* diagnostic text, which holds a FileMissing line for each absent file.
C1_MissingFileStopsPipeline ==
    (InDo /\ MissingFiles # <<>>) =>
        /\ pc = "returned"
        /\ DoCalls = <<>>
        /\ Op.hasErrors
        /\ \A i \in 1..Len(MissingFiles) : FileMissing(MissingFiles[i]) \in Range(Op.err)
        /\ ret = Append(Op.err, Newline)

\* do() has returned on a problem with an absent file, a reference for one
\* of its files and files to compile.
C1_Witness ==
    /\ pc = "returned"
    /\ MissingFiles # <<>>
    /\ ~IsNone(Op.refFilePath) /\ Val(Op.number) >= 0
    /\ \E f \in Range(Val(Op.existFiles)) : f \in refs
    /\ ~Op.skipCompile /\ ~IsNone(Op.compileFiles)

\* C2: when do() returns on a problem none of whose existFiles is absent,
\* after interface comparisons that all returned "" and compiler invocations
\* that all succeeded, it returns the empty string and hasErrors is false.
C2_CleanRunReturnsEmpty ==
    (/\ pc = "returned"
     /\ MissingFiles = <<>>
     /\ \A i \in 1..Len(DoCalls) : DoCalls[i].result \in {"ok", ""})
    => (ret = <<>> /\ ~Op.hasErrors /\ Op.err = <<>>)

\* do() has returned after the two files of the problem were found, an
\* interface comparison matched and the compiler succeeded.
C2_Witness ==
    /\ pc = "returned"
    /\ ~IsNone(Op.existFiles) /\ Len(Val(Op.existFiles)) = 2
    /\ MissingFiles = <<>>
    /\ \E i \in 1..Len(DoCalls) : IsComparatorCall(DoCalls[i])
    /\ \E i \in 1..Len(DoCalls) : IsCompilerCall(DoCalls[i])
    /\ \A i \in 1..Len(DoCalls) : DoCalls[i].result \in {"ok", ""}
    /\ ret = <<>>

\* C3: when do() returns on a cleared descriptor, its diagnostic text and
\* hasErrors are those that the current directory and the tool answers of
\* this call account for, and in a batch run the student's report holds the
\* student's header and the blocks of this student's failing problems only:
\* nothing of an earlier student's run is in either.
C3_NoLeakBetweenStudents ==
    pc = "returned" =>
        /\ Op.err = OwnDiagnostics
        /\ Op.hasErrors = (OwnDiagnostics # <<>>)
        /\ mode = "batch" =>
             personalOutput = getOutputHeader(StudentName(sIdx), HwNum)
                              \o BlocksOf(opArray, cur - 1)

\* The descriptor that failed for the first student passes for the second.
C3_Witness ==
    /\ mode = "batch" /\ pc = "returned" /\ sIdx = 2 /\ cur = 2
    /\ Len(errorStudents) = 1
    /\ ProblemHeader(Val(Op.number)) \in Range(errorStudents[1])
    /\ CompileFailed(Val(Op.compileFiles)) \in Range(errorStudents[1])
    /\ ~Op.hasErrors /\ Op.err = <<>>
    /\ \E i \in 1..Len(DoCalls) : IsCompilerCall(DoCalls[i])

\* C4: when a batch run has ended otherwise than by a user interrupt, every
\* student of the roster has been checked.
C4_EveryStudentChecked ==
    (BatchEnded /\ raised # "KeyboardInterrupt") =>
        checked = [i \in 1..NumStudents |-> StudentName(i)]

\* C5: when checkStudents has ended, by a return or by an exception, the
\* working directory is the one it was called in.
C5_CwdRestoredOnEveryExit ==
    BatchEnded => cwd = StartDir

\* C6: outside the try statement of checkCompilation no temporary directory
\* exists; when do() has returned after a compiler invocation, or a
\* KeyboardInterrupt has left it, the working directory is the one do() was
\* called in; and an interrupted invocation is the last one made, leaves
\* the KeyboardInterrupt in flight and adds nothing to the diagnostic text.
C6_CompileCleanup ==
    /\ ~InCompile => tmpDirs = {}
    /\ (InDo /\ ~InCompile) => cwd = WorkDir
    /\ \A i \in 1..Len(DoCalls) :
         DoCalls[i].result = "interrupted" =>
            /\ i = Len(DoCalls)
            /\ raised = "KeyboardInterrupt"
            /\ pc \in {"finally", "aborted"}
            /\ Op.err = LinesOfCalls(Op, DoCalls)
    /\ (pc = "returned" /\ DoCalls # <<>>) => raised = "none"

\* A KeyboardInterrupt has left do() after a compiler invocation that ran
\* in a temporary directory.
C6_Witness ==
    /\ pc = "aborted" /\ raised = "KeyboardInterrupt"
    /\ DoCalls # <<>>
    /\ DoCalls[Len(DoCalls)].cwd = TmpDir(0)
    /\ DoCalls[Len(DoCalls)].cwd # WorkDir
    /\ tmpDirs = {} /\ cwd = WorkDir

\* C7 as stated: the list a batch run returns has one entry per student of
\* the roster, and errors.log exists for exactly the students that have a
\* failing problem.
C7_OneResultPerStudent ==
    (mode = "batch" /\ pc = "done") =>
        /\ Len(errorStudents) = NumStudents
        /\ \A i \in 1..NumStudents :
             StudentFails(i) <=> ~IsNone(fs[StudentDir(i)].log)

\* C7 amended: the list a batch run returns holds the reports of the
\* students that have a failing problem, in roster order, and nothing
\* else; errors.log holds that report in the directory of each of them and
\* exists in no other student's directory.
C7_FailingStudentsReported ==
    (mode = "batch" /\ pc = "done") =>
        LET failing == FailingUpTo(NumStudents)
        IN /\ Len(errorStudents) = Len(failing)
           /\ \A k \in 1..Len(failing) :
                /\ k <= Len(errorStudents)
                /\ errorStudents[k][3]
                     = Line(<<>>, "Error log for: " \o StudentName(failing[k]))
                /\ fs[StudentDir(failing[k])].log = Some(errorStudents[k])
           /\ \A i \in 1..NumStudents :
                ~StudentFails(i) => IsNone(fs[StudentDir(i)].log)

\* A batch over three students has ended; only student 2 has a failing
\* problem, a compile failure; the list holds one report.
C7_Witness ==
    /\ mode = "batch" /\ pc = "done" /\ NumStudents = 3
    /\ FailingUpTo(NumStudents) = <<2>>
    /\ \A i \in 1..NumStudents : fs[StudentDir(i)].files = FileNames
    /\ \E k \in 1..Len(calls) :
         /\ calls[k].from = StudentDir(2)
         /\ calls[k].tool = "vcs" /\ calls[k].result = "failed"
    /\ Len(errorStudents) = 1
    /\ ~IsNone(fs[StudentDir(2)].log)
    /\ IsNone(fs[StudentDir(1)].log) /\ IsNone(fs[StudentDir(3)].log)

\* C8: during and after do() on a problem with number < 0, no interface
\* comparison has been made and the diagnostic text has no
\* InterfaceMismatch line.
C8_NegativeNumberSkipsInterface ==
    (InDo /\ Val(Op.number) < 0) =>
        /\ \A i \in 1..Len(DoCalls) : ~IsComparatorCall(DoCalls[i])
        /\ \A i \in 1..Len(Op.err) : Op.err[i].text # "incorrect interface"

\* do() is past the interface stage on a problem with number < 0 that has
\* a reference path and a reference artifact for one of its files.
C8_Witness ==
    /\ pc \in {"do_compile", "returned"}
    /\ Val(Op.number) < 0
    /\ ~IsNone(Op.refFilePath)
    /\ ~IsNone(Op.existFiles)
    /\ \E f \in Range(Val(Op.existFiles)) : f \in refs
    /\ MissingFiles = <<>>

\* C9: in per-module mode, once the vlogan pass has failed, no vcs
\* invocation is made in this do() call, and the diagnostic text is the
\* CompileFailed line followed by the transcript of vlogan.
C9_AnalysisFailureAborts ==
    (InDo /\ VloganResult("failed")) =>
        /\ ModulesBuilt = <<>>
        /\ pc \in {"finally", "returned"}
        /\ Op.hasErrors
        /\ Op.err = <<CompileFailed(Val(Op.compileFiles)),
                      Line(<<>>, Transcript("vlogan", ""))>>

\* do() has returned after a failed vlogan pass on a problem that names
\* modules.
C9_Witness ==
    /\ pc = "returned"
    /\ VloganResult("failed")
    /\ ~IsNone(Op.specificModules) /\ Len(Val(Op.specificModules)) >= 1
    /\ ret # <<>>

\* C10: when do() returns after a successful vlogan pass, vcs has been
\* invoked once for every module of specificModules, in list order, and
\* the diagnostic text holds, for each invocation that failed and in that
\* order, a CompileFailed line followed by the transcript of that module.
C10_EveryModuleBuilt ==
    (pc = "returned" /\ VloganResult("ok")) =>
        /\ ModulesBuilt = Val(Op.specificModules)
        /\ Op.err = LinesOfCalls(Op, SelectSeq(DoCalls, LAMBDA c : c.tool = "vcs"))
        /\ Len(Op.err) = 2 * Cardinality({i \in 1..Len(DoCalls) :
                                            DoCalls[i].result = "failed"})

\* do() has returned after the build of the first of two modules failed
\* and the second was still built.
C10_Witness ==
    /\ pc = "returned"
    /\ VloganResult("ok")
    /\ Len(Val(Op.specificModules)) = 2
    /\ Len(ModulesBuilt) = 2
    /\ \E i \in 1..Len(DoCalls) :
         /\ DoCalls[i].tool = "vcs" /\ DoCalls[i].result = "failed"
         /\ DoCalls[i].module = Val(Op.specificModules)[1]
    /\ \E i \in 1..Len(DoCalls) :
         /\ DoCalls[i].tool = "vcs" /\ DoCalls[i].result = "ok"
         /\ DoCalls[i].module = Val(Op.specificModules)[2]

\* The comparator invocations of this do() call, in order.
ComparatorCalls == SelectSeq(DoCalls, IsComparatorCall)

\* The files that the InterfaceMismatch lines of a diagnostic text name,
\* in order.
MismatchedIn(err) ==
    LET ls == SelectSeq(err, LAMBDA l : l.text = "incorrect interface")
    IN [i \in 1..Len(ls) |-> ls[i].names[1]]

\* The entries of existFiles that have a reference artifact, in order.
FilesWithReference ==
    IF IsNone(Op.existFiles) THEN <<>>
    ELSE SelectSeq(Val(Op.existFiles), LAMBDA f : f \in refs)

\* The interface stage of this do() call has been entered and left.
InterfaceStageDone ==
    /\ pc \in {"do_compile", "vlogan", "modules", "vcs", "finally", "returned"}
    /\ MissingFiles = <<>>
    /\ ~IsNone(Op.refFilePath) /\ ~IsNone(Op.existFiles)
    /\ Val(Op.number) >= 0

\* C11 as stated: in a do() call the comparator is not invoked on any file
\* after the first one whose comparison gave a mismatch, and a file with
\* no reference artifact gets neither an invocation nor a diagnostic line.
C11_StopsAtFirstMismatch ==
    InDo =>
        /\ \A i \in 1..Len(ComparatorCalls) :
             ComparatorCalls[i].result # "" => i = Len(ComparatorCalls)
        /\ \A i \in 1..Len(ComparatorCalls) : ComparatorCalls[i].files[1] \in refs
        /\ \A f \in Range(MismatchedIn(Op.err)) : f \in refs

\* C11 amended: when the interface stage has run, the comparator has been
\* invoked once on every file of existFiles that has a reference artifact,
\* in list order, also on the files after a mismatching one; the text
\* holds one InterfaceMismatch line for each invocation that gave a
\* mismatch, in that order; the stage fails when there is one; a file with
\* no reference artifact gets neither an invocation nor a line.
C11_EveryReferencedFileCompared ==
    InterfaceStageDone =>
        /\ [i \in 1..Len(ComparatorCalls) |-> ComparatorCalls[i].files[1]]
             = FilesWithReference
        /\ MismatchedIn(Op.err)
             = MismatchedIn(LinesOfCalls(Op, ComparatorCalls))
        /\ (MismatchedIn(Op.err) # <<>>) => (pc = "returned" /\ Op.hasErrors)
        /\ \A f \in Range(Val(Op.existFiles)) :
             f \notin refs => f \notin Range(MismatchedIn(Op.err))

\* do() has returned after the comparison of the first of two files with
\* a reference gave a mismatch and the second was still compared.
C11_Witness ==
    /\ pc = "returned"
    /\ InterfaceStageDone
    /\ Len(ComparatorCalls) = 2
    /\ ComparatorCalls[1].result # ""
    /\ ComparatorCalls[2].result = ""
    /\ MismatchedIn(Op.err) = <<ComparatorCalls[1].files[1]>>

\* The position of a file name in the order of Python's string comparison.
Rank(f) == CHOOSE i \in 1..Len(NameOrder) : NameOrder[i] = f

\* A list of file names that is sorted, has no name twice and no wildcard.
Resolved(l) ==
    /\ \A i \in 1..Len(l) : l[i] \in FileNames /\ ~HasWildcard(l[i])
    /\ \A i, j \in 1..Len(l) : i < j => Rank(l[i]) < Rank(l[j])

\* The op as the one call of checkWildcard in parseProblem leaves it.
ResolvedOnce == parseProblem(NewOperation(None, FALSE, FALSE), config[1], fs[cwd].files)

\* C12: after checkWildcard has run a second time in the same directory,
\* existFiles, compileFiles and useWildcard (and the rest of the op) are
\* what they were after the first run, and after either run the two lists
\* are sorted and hold no name twice and no wildcard entry.
C12_CheckWildcardIdempotent ==
    /\ pc = "resolved" => opArray[1] = ResolvedOnce
    /\ pc \in {"parsed", "resolved"} =>
          /\ ~IsNone(opArray[1].existFiles) => Resolved(Val(opArray[1].existFiles))
          /\ ~IsNone(opArray[1].compileFiles) => Resolved(Val(opArray[1].compileFiles))
          /\ opArray[1].useWildcard <=>
                /\ ~IsNone(config[1].files)
                /\ \E i \in 1..Len(Val(config[1].files)) : HasWildcard(Val(config[1].files)[i])

\* checkWildcard has run twice on a record whose files name a.sv and a
\* wildcard that matches a.sv and b.sv, and whose compileFiles name b.sv
\* twice.
C12_Witness ==
    /\ pc = "resolved"
    /\ config[1].files = Some(<<"*.sv", "a.sv">>)
    /\ config[1].compileFiles = Some(<<"b.sv", "b.sv">>)
    /\ fs[cwd].files = FileNames
    /\ opArray[1].existFiles = Some(<<"a.sv", "b.sv">>)
    /\ opArray[1].compileFiles = Some(<<"b.sv">>)
    /\ opArray[1].useWildcard

\* C13: once checkStudent has returned for a student, the student's
\* directory holds an errors.log exactly if one of the student's problems
\* failed; the log is then the report of this run (a log of an earlier run
\* has been overwritten), and a log of an earlier run is gone when no
\* problem failed.
C13_ErrLogIffFailed ==
    mode = "batch" =>
        \A i \in 1..Len(checked) :
            LET log == fs[StudentDir(i)].log
            IN /\ ~IsNone(log) <=> StudentFails(i)
               /\ ~IsNone(log) =>
                     /\ log # StaleLog
                     /\ Val(log)[3] = Line(<<>>, "Error log for: " \o StudentName(i))
                     /\ Val(log) \in Range(errorStudents)

\* The batch run has ended; students 1 and 2 both had an errors.log of an
\* earlier run; student 1 passed and has no log any more, student 2 failed
\* and has the report of this run as log.
C13_Witness ==
    /\ mode = "batch" /\ pc = "done"
    /\ fs0[StudentDir(1)].log = StaleLog /\ fs0[StudentDir(2)].log = StaleLog
    /\ ~StudentFails(1) /\ IsNone(fs[StudentDir(1)].log)
    /\ StudentFails(2) /\ ~IsNone(fs[StudentDir(2)].log)
    /\ fs[StudentDir(2)].log # StaleLog

\* The field of the op that parseProblem sets from the key k.
FieldOf(op, k) ==
    CASE k = "number" -> op.number
      [] k = "files" -> op.existFiles
      [] k = "compileFiles" -> op.compileFiles
      [] k = "testFiles" -> op.testFiles
      [] k = "specificModules" -> op.specificModules

\* checkStudents has read the configuration file.
ConfigRead == mode = "batch" /\ pc # "checkStudents" /\ config # <<>>

\* C14 as stated: once the configuration has been read, no error has been
\* raised on the way to the ops, there is an op for each record, and for
\* each key that the record omits or gives as null the field of its op is
\* None.
C14_AbsentKeyLeavesFieldUnset ==
    ConfigRead =>
        /\ raised \notin {"KeyError", "TypeError"}
        /\ Len(opArray) = Len(config)
        /\ LET sorted == IF Len(config) = 1 THEN config ELSE SortByNumber(config)
           IN \A i \in 1..Len(config) : \A k \in ProblemKeys :
                (k \notin DOMAIN sorted[i] \/ IsNone(sorted[i][k]))
                    => IsNone(FieldOf(opArray[i], k))

\* The name f equals <hwNum>_cfg.json when letter case is ignored.
MatchesIgnoringCase(f) == Lower(f.id) = Lower(HwNum) /\ Lower(f.suffix) = "_cfg.json"

\* C15 as stated: once checkStudents is past the lookup, if cfgDir holds a
\* file whose name equals <hwNum>_cfg.json ignoring case, the lookup has
\* raised nothing and a well-formed content of that file is the
\* configuration loaded; NoConfigError is raised exactly if cfgDir holds
\* no such file.
C15_CaseInsensitiveLookup ==
    (mode = "batch" /\ pc # "checkStudents") =>
        LET match == \E f \in Range(cfgDir) : MatchesIgnoringCase(f)
        IN /\ raised = "NoConfigError" <=> ~match
           /\ match =>
                 /\ raised # "ValueError"
                 /\ MatchesIgnoringCase(CfgName(hwNum, "_cfg.json"))
                 /\ cfgContent.valid => config = cfgContent.value

\* C16: when checkStudents has ended with NoConfigError or
\* ParseConfigError, no student has been checked, no do() call and no tool
\* invocation has been made, every directory is as it was at the start
\* (no errors.log written or removed), and the working directory is the
\* one the run was started in.
C16_ConfigErrorIsTerminal ==
    (mode = "batch" /\ raised \in {"NoConfigError", "ParseConfigError"}) =>
        /\ pc = "aborted"
        /\ checked = <<>> /\ sIdx = 0
        /\ runs = <<>> /\ calls = <<>>
        /\ errorStudents = <<>>
        /\ fs = fs0
        /\ cwd = StartDir

\* checkStudents has ended with ParseConfigError on a file that the
\* lookup found under a name in other letter case, every student having
\* an errors.log of an earlier run.
C16_Witness ==
    /\ mode = "batch" /\ pc = "aborted" /\ raised = "ParseConfigError"
    /\ cfgDir = <<CfgName("hw2", "_cfg.json"), CfgName("HW1", "_cfg.json")>>
    /\ hwNum = "HW1"
    /\ \A i \in 1..NumStudents : fs[StudentDir(i)].log = StaleLog

\* C17 as stated: the line writeHeaderLine returns is 80 columns wide (and
\* ends in a newline), starts and ends with "*", and holds the text, with a
\* blank on either side, between a left padding and a right padding of
\* filler characters, the left one as long as the right one or one
\* shorter.
C17_HeaderLineIs80Columns ==
    ~IsNone(banner.line) =>
        LET l == Val(banner.line)
            filler == IF banner.filled THEN "*" ELSE " "
        IN /\ Len(l) = 81 /\ l[81] = "\n"
           /\ l[1] = "*" /\ l[80] = "*"
           /\ \E a \in 0..80 : \E b \in {a, a + 1} :
                l = <<"*">> \o Rep(filler, a) \o <<" ">> \o banner.header \o <<" ">>
                    \o Rep(filler, b) \o <<"*", "\n">>

\* A step of the directory setup of student i failed: os.mkdir, or one of
\* the fs commands.
SetupStepFailed(i) ==
    \E k \in 1..Len(calls) :
        calls[k].files = <<StudentName(i)>> /\ calls[k].result = "failed"

\* C18 as stated: during and after createStudentDirs, no failure of a step
\* has ended the loop over the students, and every student handled so far
\* for whom a step failed is in badIDs.
C18_FailedStudentsAreBad ==
    mode = "createStudentDirs" =>
        /\ raised = "none"
        /\ \A i \in 1..NumStudents :
             SetupStepFailed(i) => StudentName(i) \in Range(badIDs)

\* The files that the FileMissing lines of a diagnostic text name, in
\* order.
MissingIn(err) ==
    LET ls == SelectSeq(err, LAMBDA l : l.text = "file does not exist")
    IN [i \in 1..Len(ls) |-> ls[i].names[1]]

\* C19: during and after a do() call on a problem with a file list, the
\* diagnostic text holds one FileMissing line for each entry of existFiles
\* that is absent from the directory, in list order, and none for an
\* entry that is there.
C19_EveryMissingFileReported ==
    (InDo /\ ~IsNone(Op.existFiles)) =>
        /\ MissingIn(Op.err) = MissingFiles
        /\ \A f \in Range(Val(Op.existFiles)) :
             f \in WorkFiles => FileMissing(f) \notin Range(Op.err)
        /\ MissingFiles # <<>> => Len(Op.err) = Len(MissingFiles)

\* do() has returned on a problem with two files, both absent.
C19_Witness ==
    /\ pc = "returned"
    /\ ~IsNone(Op.existFiles)
    /\ Len(Val(Op.existFiles)) = 2
    /\ Len(MissingFiles) = 2
    /\ MissingIn(Op.err) = Val(Op.existFiles)

\* The do() calls made in student i's directory, in order.
RunsOf(i) == SelectSeq(runs, LAMBDA r : r.dir = StudentDir(i))

\* The problem numbers of the configuration.
ConfigNumbers == {Val(config[k].number) : k \in 1..Len(config)}

\* Whether the problem with number n fails for student i: one of its files
\* is absent from the student's directory, or an invocation of the compiler
\* on its files, made from that directory, failed.
ProblemFailsFor(i, n) ==
    \E k \in 1..Len(opArray) :
        /\ opArray[k].number = Some(n)
        /\ \/ /\ ~IsNone(opArray[k].existFiles)
              /\ \E f \in Range(Val(opArray[k].existFiles)) :
                   f \notin fs[StudentDir(i)].files
           \/ /\ ~IsNone(opArray[k].compileFiles)
              /\ \E c \in 1..Len(calls) :
                   /\ calls[c].from = StudentDir(i)
                   /\ calls[c].files = Val(opArray[k].compileFiles)
                   /\ calls[c].result = "failed"

\* The problem numbers of the "Problem n" lines of a report, in order.
HeaderNumbers(report) ==
    LET hs == SelectSeq(report, LAMBDA l : \E n \in ConfigNumbers : l = ProblemHeader(n))
    IN [j \in 1..Len(hs) |-> CHOOSE n \in ConfigNumbers : hs[j] = ProblemHeader(n)]

\* C20: when checkStudent has returned for a student of a batch run (the
\* last of `checked`; no later step touches what is said of the student),
\* do() has been called once for each problem of the configuration, in
\* ascending order of the problem numbers whatever the order of the
\* records, also after a problem that fails; the report blocks of the
\* failing problems are in that order too.
C20_ProblemsInNumberOrder ==
    (mode = "batch" /\ pc = "student" /\ checked # <<>>) =>
        \A i \in {Len(checked)} :
            LET rs == RunsOf(i)
                nums == [k \in 1..Len(rs) |-> Val(rs[k].number)]
                failing == SelectSeq(nums, LAMBDA n : ProblemFailsFor(i, n))
                log == fs[StudentDir(i)].log
            IN /\ Len(rs) = Len(config)
               /\ Range(nums) = ConfigNumbers
               /\ \A k, l \in 1..Len(rs) : k < l => nums[k] < nums[l]
               /\ IF failing = <<>> THEN IsNone(log)
                  ELSE ~IsNone(log) /\ HeaderNumbers(Val(log)) = failing

\* A batch run over a configuration whose records are not in number order
\* has ended; for student 1 the problem with the lower number failed, the
\* problem with the higher number was still run and failed too.
C20_Witness ==
    /\ mode = "batch" /\ pc = "done"
    /\ Val(config[1].number) > Val(config[2].number)
    /\ ProblemFailsFor(1, 1) /\ ProblemFailsFor(1, 2)
    /\ HeaderNumbers(Val(fs[StudentDir(1)].log)) = <<1, 2>>
    /\ \E c \in 1..Len(calls) : calls[c].from = StudentDir(1) /\ calls[c].result = "failed"

\* The fields of an op that the resolution of its record fixes.
Frame(op) ==
    [number |-> op.number, existFiles |-> op.existFiles,
     compileFiles |-> op.compileFiles, testFiles |-> op.testFiles,
     specificModules |-> op.specificModules, useWildcard |-> op.useWildcard]

\* C21: once the ops have been made, no step of doOpArray, checkStudents,
\* checkStudent, clearErrors or do(), whatever its outcome, adds or drops
\* an op or changes number, existFiles, compileFiles, testFiles,
\* specificModules or useWildcard of an op.
C21_DescriptorImmutable ==
    [][opArray # <<>> =>
         /\ Len(opArray') = Len(opArray)
         /\ \A k \in 1..Len(opArray) : Frame(opArray'[k]) = Frame(opArray[k])]_vars

\* doOpArray has ended after do() found an error on an op whose files
\* were given by a wildcard, and the op still has the resolved files.
C21_Witness ==
    /\ mode = "handin" /\ pc = "done"
    /\ \E k \in 1..Len(opArray) :
         /\ opArray[k].useWildcard
         /\ opArray[k].hasErrors /\ opArray[k].err # <<>>
         /\ opArray[k].existFiles = Some(<<"a.sv", "b.sv">>)
         /\ \E j \in 1..Len(config) :
              config[j].number = opArray[k].number /\ config[j].files = Some(<<"*.sv">>)

\* What has happened so far in this do() call calls for an error: a file
\* is absent, a comparison gave a mismatch, or a compiler invocation
\* failed. Once true it stays true to the end of the call.
FailureSoFar ==
    \/ MissingFiles # <<>>
    \/ \E i \in 1..Len(DoCalls) : DoCalls[i].result \in {"port mismatch", "failed"}

\* C22: throughout a do() call that started from a cleared error state,
\* hasErrors is true exactly if the diagnostic text is non-empty and
\* exactly if a stage has failed so far (so that it never goes back to
\* false); when do() has returned, it is true exactly if the string
\* returned is non-empty.
C22_HasErrorsIffText ==
    InDo =>
        /\ Op.hasErrors <=> Op.err # <<>>
        /\ Op.hasErrors <=> FailureSoFar
        /\ pc = "returned" => (Op.hasErrors <=> ret # <<>>)

\* do() has returned after the build of the first module failed and the
\* build of the second succeeded.
C22_Witness ==
    /\ pc = "returned"
    /\ Op.hasErrors /\ Op.err # <<>> /\ ret # <<>>
    /\ Len(DoCalls) = 3
    /\ DoCalls[2].result = "failed" /\ DoCalls[3].result = "ok"

\* The "files" of the record p are wildcard patterns only, and none of
\* them matched a file of the directory the ops were made in.
NonMatchingOnly(p) ==
    /\ ~IsNone(p.files)
    /\ Val(p.files) # <<>>
    /\ \A i \in 1..Len(Val(p.files)) :
         /\ HasWildcard(Val(p.files)[i])
         /\ Glob(Val(p.files)[i], fs0[StartDir].files) = {}

\* C23: in a batch run, the op of a record whose files are wildcard
\* patterns that matched nothing has an empty existFiles; whatever a
\* student has handed in, its diagnostic text never holds a FileMissing
\* line, and a do() call on it that has returned has gone on to the
\* compilation of its compileFiles.
C23_UnmatchedWildcardPasses ==
    (mode = "batch" /\ opArray # <<>>) =>
        \A k \in 1..Len(opArray) : \A j \in 1..Len(config) :
            (config[j].number = opArray[k].number /\ NonMatchingOnly(config[j])) =>
                /\ opArray[k].existFiles = Some(<<>>)
                /\ MissingIn(opArray[k].err) = <<>>
                /\ (cur = k /\ pc = "returned" /\ ~IsNone(opArray[k].compileFiles)) =>
                      \E c \in 1..Len(DoCalls) : IsCompilerCall(DoCalls[c])

\* The batch run has ended over the configuration with the wildcard, made
\* into ops in an empty directory: student 1 has handed in nothing and
\* student 2 every file, and the compiler has been invoked for both.
C23_Witness ==
    /\ mode = "batch" /\ pc = "done"
    /\ config = WildcardConfig
    /\ fs0[StartDir].files = {}
    /\ opArray[1].existFiles = Some(<<>>)
    /\ fs[StudentDir(1)].files = {} /\ fs[StudentDir(2)].files = FileNames
    /\ \A i \in 1..2 : \E c \in 1..Len(calls) :
         calls[c].from = StudentDir(i) /\ calls[c].tool = "vcs"

====
